---- MODULE Spec2Model ----
(***************************************************************************)
(* A model of the profil_logger package (src/profil_logger):              *)
(*   logger.py   - LogEntry, Handler, ProfilLogger, ProfilLoggerReader     *)
(*   handlers.py - JsonHandler, CSVHandler, FileHandler, SQLLiteHandler    *)
(*                                                                         *)
(* Text is a sequence of one-character strings, so that upper(), strip(),  *)
(* split() and the ISO date format are computed character by character.    *)
(* A Python value whose type matters is a record [type, val].              *)
(***************************************************************************)
EXTENDS Integers, Sequences, FiniteSets, TLC

VARIABLES
    handlers,    \* ProfilLogger.handlers: the handlers given at construction
    log_level,   \* ProfilLogger.log_level: the threshold
    now,         \* the wall clock read by datetime.datetime.now()
    call,        \* the last ProfilLogger call: its name, arguments and the threshold it met
    built,       \* the LogEntry values the last call constructed
    writes,      \* the handler.write invocations of the last call, in order
    outcome,     \* how the last call ended: "returned" or the exception raised to the caller
    backend,     \* the class of the handler the Reader is bound to (ProfilLoggerReader.handler)
    store,       \* the target of that handler: its file or its table
    initial,     \* what the target held when the handler was constructed
    written,     \* the entries of the write calls that returned, in call order
    connections, \* the sqlite3 connections the SQLLiteHandler has opened and not closed
    io,          \* what the last SQLLiteHandler operation did to the database, in order
    rcall,       \* the last call on the handler or on the Reader, with its arguments
    observed,    \* the logs _get_all_logs_from_handler gave the last Reader call
    result,      \* what the last call gave its caller: an exception or a value
    args,        \* the arguments a LogEntry is constructed with
    made,        \* what LogEntry(...) gave: the exception raised or the entry
    data,        \* the dict to_dict() returned
    restored,    \* what LogEntry.from_dict(data) gave: the exception raised or the entry
    shared,      \* the JSON file two JsonHandler objects write to
    at_start,    \* that file when the two handlers had been constructed
    writing,     \* for each of the two writers, the entry its write call was given
    pc,          \* for each writer, how far its write call has come
    local,       \* for each writer, all_logs_data of its write call
    finished,    \* the writers, in the sequence in which their writes rewrote the file
    overlapped   \* a write call began while the other writer's was under way

loggerVars == <<handlers, log_level, now, call, built, writes, outcome>>

storeVars == <<backend, store, initial, written, connections, io, rcall, observed, result>>

entryVars == <<args, made, data, restored>>

raceVars == <<shared, at_start, writing, pc, local, finished, overlapped>>

vars == <<handlers, log_level, now, call, built, writes, outcome,
          backend, store, initial, written, connections, io, rcall, observed, result,
          args, made, data, restored,
          shared, at_start, writing, pc, local, finished, overlapped>>

----------------------------------------------------------------------------
(* Bounds of the model *)

\* the largest number of handlers a logger is constructed with
MaxHandlers == 2

\* the clock runs from 0 to MaxTime
MaxTime == 2

\* the largest number of write calls on one handler
MaxWrites == 2

----------------------------------------------------------------------------
(* Text *)

Range(s) == {s[i] : i \in DOMAIN s}

\* the lower-case letters of the model's alphabet and their upper-case forms
UpperOf ==
    ("a" :> "A") @@ ("b" :> "B") @@ ("c" :> "C") @@ ("d" :> "D") @@ ("e" :> "E") @@
    ("f" :> "F") @@ ("g" :> "G") @@ ("i" :> "I") @@ ("l" :> "L") @@ ("n" :> "N") @@
    ("o" :> "O") @@ ("r" :> "R") @@ ("t" :> "T") @@ ("u" :> "U") @@ ("w" :> "W")

LowerOf ==
    ("A" :> "a") @@ ("B" :> "b") @@ ("C" :> "c") @@ ("D" :> "d") @@ ("E" :> "e") @@
    ("F" :> "f") @@ ("G" :> "g") @@ ("I" :> "i") @@ ("L" :> "l") @@ ("N" :> "n") @@
    ("O" :> "o") @@ ("R" :> "r") @@ ("T" :> "t") @@ ("U" :> "u") @@ ("W" :> "w")

\* str.upper()
upper(s) == [i \in DOMAIN s |-> IF s[i] \in DOMAIN UpperOf THEN UpperOf[s[i]] ELSE s[i]]

\* str.lower()
lower(s) == [i \in DOMAIN s |-> IF s[i] \in DOMAIN LowerOf THEN LowerOf[s[i]] ELSE s[i]]

----------------------------------------------------------------------------
(* Python values *)

PyStr(s) == [type |-> "str", val |-> s]
PyNone == [type |-> "NoneType", val |-> <<>>]

----------------------------------------------------------------------------
(* logger.py: LogLevel *)

DEBUG == <<"D", "E", "B", "U", "G">>
INFO == <<"I", "N", "F", "O">>
WARNING == <<"W", "A", "R", "N", "I", "N", "G">>
ERROR == <<"E", "R", "R", "O", "R">>
CRITICAL == <<"C", "R", "I", "T", "I", "C", "A", "L">>

\* get_args(LogLevel)
LogLevel == <<DEBUG, INFO, WARNING, ERROR, CRITICAL>>

Levels == Range(LogLevel)

PyDatetime(t) == [type |-> "datetime", val |-> t]

----------------------------------------------------------------------------
(* logger.py: LogEntry *)

\* an object that is not a LogEntry: it has none of the attributes date, level, message
Object(type) == [type |-> type, date |-> 0, level |-> <<>>, message |-> <<>>]

Raise(e) == [ok |-> FALSE, exc |-> e, entry |-> Object("NoneType")]

LogEntry_init_any_level(date, level, message) ==
    IF date.type # "datetime" THEN Raise("TypeError")
    ELSE IF level.type # "str" THEN Raise("ValueError")
    ELSE IF message.type # "str" THEN Raise("TypeError")
    ELSE [ok |-> TRUE, exc |-> "",
          entry |-> [type |-> "LogEntry", date |-> date.val, level |-> level.val,
                     message |-> message.val]]

\* LogEntry.__init__: the three checks, then the three assignments
LogEntry_init(date, level, message) ==
    IF date.type # "datetime" THEN Raise("TypeError")
    ELSE IF ~(level.type = "str" /\ level.val \in Levels) THEN Raise("ValueError")
    ELSE IF message.type # "str" THEN Raise("TypeError")
    ELSE [ok |-> TRUE, exc |-> "",
          entry |-> [type |-> "LogEntry", date |-> date.val, level |-> level.val,
                     message |-> message.val]]

----------------------------------------------------------------------------
(* logger.py: ProfilLogger *)

\* ProfilLogger._LOG_LEVELS
LOG_LEVELS == (DEBUG :> 0) @@ (INFO :> 1) @@ (WARNING :> 2) @@ (ERROR :> 3) @@ (CRITICAL :> 4)

\* dict.get(key, default)
Get(d, key, default) == IF key \in DOMAIN d THEN d[key] ELSE default

should_log_strict(level, threshold) ==
    Get(LOG_LEVELS, level, -1) > Get(LOG_LEVELS, threshold, 0)

\* ProfilLogger._should_log, with self.log_level passed as threshold
should_log(level, threshold) ==
    Get(LOG_LEVELS, level, -1) >= Get(LOG_LEVELS, threshold, 0)

\* the write of a handler given to the logger: it raises when the handler is failing
handler_write(h, failing) == IF h \in failing THEN "Exception" ELSE ""

RECURSIVE fan_out_propagating(_, _, _)
fan_out_propagating(hs, entry, failing) ==
    IF hs = <<>> THEN [writes |-> <<>>, exc |-> ""]
    ELSE LET e == handler_write(Head(hs), failing)
             w == [handler |-> Head(hs), entry |-> entry, raised |-> e # ""]
             rest == fan_out_propagating(Tail(hs), entry, failing)
         IN  IF e # "" THEN [writes |-> <<w>>, exc |-> e]
             ELSE [writes |-> <<w>> \o rest.writes, exc |-> rest.exc]

RECURSIVE fan_out_reversed(_, _, _)
fan_out_reversed(hs, entry, failing) ==
    IF hs = <<>> THEN [writes |-> <<>>, exc |-> ""]
    ELSE LET e == handler_write(Head(hs), failing)
             w == [handler |-> Head(hs), entry |-> entry, raised |-> e # ""]
             rest == fan_out_reversed(Tail(hs), entry, failing)
         IN  [writes |-> rest.writes \o <<w>>, exc |-> rest.exc]

\* the loop of ProfilLogger._log: for handler in self.handlers: try write, except
\* Exception: print. The exception of a write is caught and the loop goes on.
RECURSIVE fan_out(_, _, _)
fan_out(hs, entry, failing) ==
    IF hs = <<>> THEN [writes |-> <<>>, exc |-> ""]
    ELSE LET e == handler_write(Head(hs), failing)
             w == [handler |-> Head(hs), entry |-> entry, raised |-> e # ""]
             rest == fan_out(Tail(hs), entry, failing)
         IN  [writes |-> <<w>> \o rest.writes, exc |-> rest.exc]

_log_validating_first(op, level, message, failing) ==
    /\ call' = [op |-> op, level |-> level, arg |-> message,
                threshold |-> log_level, failing |-> failing, at |-> now]
    /\ LET r == LogEntry_init(PyDatetime(now), PyStr(level), message) IN
       IF ~r.ok
       THEN /\ built' = <<>>
            /\ writes' = <<>>
            /\ outcome' = r.exc
       ELSE IF should_log(level, log_level)
       THEN LET f == fan_out(handlers, r.entry, failing) IN
            /\ built' = <<r.entry>>
            /\ writes' = f.writes
            /\ outcome' = IF f.exc = "" THEN "returned" ELSE f.exc
       ELSE /\ built' = <<>>
            /\ writes' = <<>>
            /\ outcome' = "returned"
    /\ UNCHANGED <<handlers, log_level, now>>
    /\ UNCHANGED storeVars
    /\ UNCHANGED entryVars
    /\ UNCHANGED raceVars

\* ProfilLogger._log(level, message); failing are the handlers whose write raises
_log(op, level, message, failing) ==
    /\ call' = [op |-> op, level |-> level, arg |-> message,
                threshold |-> log_level, failing |-> failing, at |-> now]
    /\ IF should_log(level, log_level)
       THEN LET r == LogEntry_init(PyDatetime(now), PyStr(level), message) IN
            IF r.ok
            THEN LET f == fan_out(handlers, r.entry, failing) IN
                 /\ built' = <<r.entry>>
                 /\ writes' = f.writes
                 /\ outcome' = IF f.exc = "" THEN "returned" ELSE f.exc
            ELSE /\ built' = <<>>
                 /\ writes' = <<>>
                 /\ outcome' = r.exc
       ELSE /\ built' = <<>>
            /\ writes' = <<>>
            /\ outcome' = "returned"
    /\ UNCHANGED <<handlers, log_level, now>>
    /\ UNCHANGED storeVars
    /\ UNCHANGED entryVars
    /\ UNCHANGED raceVars

\* the messages passed to the logger: text, and one value that is not text
Messages == {PyStr(<<"a">>), PyStr(<<>>), PyNone}

debug == \E m \in Messages, failing \in SUBSET Range(handlers) : _log("debug", DEBUG, m, failing)
info == \E m \in Messages, failing \in SUBSET Range(handlers) : _log("info", INFO, m, failing)
warning == \E m \in Messages, failing \in SUBSET Range(handlers) : _log("warning", WARNING, m, failing)
error == \E m \in Messages, failing \in SUBSET Range(handlers) : _log("error", ERROR, m, failing)
critical == \E m \in Messages, failing \in SUBSET Range(handlers) : _log("critical", CRITICAL, m, failing)

\* the arguments passed to set_log_level
LevelNames ==
    {PyStr(n) : n \in Levels}
    \cup {PyStr(lower(n)) : n \in Levels}
    \cup {PyStr(<<"E", "r", "r", "o", "r">>), PyStr(<<"I", "n", "f", "O">>),
          PyStr(<<>>), PyStr(<<"W", "A", "R", "N">>), PyStr(<<"t", "r", "a", "c", "e">>),
          PyStr(INFO \o <<" ">>), PyNone}

set_level_unchecked(level) ==
    IF level.type # "str" THEN [exc |-> "AttributeError", log_level |-> log_level]
    ELSE IF upper(level.val) \notin Levels
         THEN [exc |-> "ValueError", log_level |-> upper(level.val)]
         ELSE [exc |-> "", log_level |-> upper(level.val)]

set_level_verbatim(level) ==
    IF level.type # "str" THEN [exc |-> "AttributeError", log_level |-> log_level]
    ELSE IF upper(level.val) \notin Levels
         THEN [exc |-> "ValueError", log_level |-> log_level]
         ELSE [exc |-> "", log_level |-> level.val]

\* the body of ProfilLogger.set_log_level: the exception raised (if any) and the
\* threshold left behind
set_level(level) ==
    IF level.type # "str" THEN [exc |-> "AttributeError", log_level |-> log_level]
    ELSE IF upper(level.val) \notin Levels
         THEN [exc |-> "ValueError", log_level |-> log_level]
         ELSE [exc |-> "", log_level |-> upper(level.val)]

\* ProfilLogger.set_log_level(level)
set_log_level ==
    \E level \in LevelNames :
        LET r == set_level(level) IN
        /\ call' = [op |-> "set_log_level", level |-> <<>>, arg |-> level,
                    threshold |-> log_level, failing |-> {}, at |-> now]
        /\ log_level' = r.log_level
        /\ outcome' = IF r.exc = "" THEN "returned" ELSE r.exc
        /\ built' = <<>>
        /\ writes' = <<>>
        /\ UNCHANGED <<handlers, now>>
        /\ UNCHANGED storeVars
        /\ UNCHANGED entryVars
        /\ UNCHANGED raceVars

\* time passes between two calls
Tick ==
    /\ now < MaxTime
    /\ now' = now + 1
    /\ UNCHANGED <<handlers, log_level, call, built, writes, outcome>>
    /\ UNCHANGED storeVars
    /\ UNCHANGED entryVars
    /\ UNCHANGED raceVars

\* the sequences of distinct handlers, at most MaxHandlers of them
HandlerLists ==
    UNION {{hs \in [1..n -> 1..MaxHandlers] : \A i, j \in 1..n : hs[i] = hs[j] => i = j}
           : n \in 0..MaxHandlers}

\* ProfilLogger.__init__(handlers)
InitLogger ==
    /\ handlers \in HandlerLists
    /\ log_level = INFO
    /\ now = 0
    /\ call = [op |-> "init", level |-> <<>>, arg |-> PyNone, threshold |-> INFO,
               failing |-> {}, at |-> 0]
    /\ built = <<>>
    /\ writes = <<>>
    /\ outcome = "returned"

NextLogger == debug \/ info \/ warning \/ error \/ critical \/ set_log_level \/ Tick

----------------------------------------------------------------------------
(* Text operations used by the handlers *)

\* the characters str.strip() removes
Whitespace == {" ", "\n", "\t"}

RECURSIVE lstrip(_)
lstrip(s) == IF s # <<>> /\ Head(s) \in Whitespace THEN lstrip(Tail(s)) ELSE s

RECURSIVE rstrip(_)
rstrip(s) ==
    IF s # <<>> /\ s[Len(s)] \in Whitespace THEN rstrip(SubSeq(s, 1, Len(s) - 1)) ELSE s

\* str.strip()
strip(s) == rstrip(lstrip(s))

\* the index of the first c in s (c occurs in s)
Find(s, c) == CHOOSE i \in DOMAIN s : s[i] = c /\ \A j \in 1..(i - 1) : s[j] # c

\* str.split(sep, maxsplit) for a one-character sep
RECURSIVE split(_, _, _)
split(s, sep, maxsplit) ==
    IF maxsplit = 0 \/ sep \notin Range(s) THEN <<s>>
    ELSE LET i == Find(s, sep)
         IN  <<SubSeq(s, 1, i - 1)>> \o split(SubSeq(s, i + 1, Len(s)), sep, maxsplit - 1)

\* f.readlines(): the lines of a text, each with its line break
RECURSIVE readlines(_)
readlines(text) ==
    IF text = <<>> THEN <<>>
    ELSE IF "\n" \notin Range(text) THEN <<text>>
    ELSE LET i == Find(text, "\n")
         IN  <<SubSeq(text, 1, i)>> \o readlines(SubSeq(text, i + 1, Len(text)))

\* text in message
Contains(message, text) ==
    \E i \in 1..(Len(message) + 1) :
        /\ i + Len(text) - 1 <= Len(message)
        /\ \A j \in DOMAIN text : message[i + j - 1] = text[j]

----------------------------------------------------------------------------
(* datetime: a date-time is a number of clock ticks; its ISO text is two digits *)

Digits == <<"0", "1", "2", "3", "4", "5", "6", "7", "8", "9">>

\* datetime.isoformat(): fixed-width, zero-padded digits
isoformat(t) == <<Digits[(t \div 10) + 1], Digits[(t % 10) + 1]>>

DigitVal(c) == (CHOOSE i \in DOMAIN Digits : Digits[i] = c) - 1

\* datetime.datetime.fromisoformat(): ValueError unless the text has the format
fromisoformat(s) ==
    IF Len(s) = 2 /\ \A i \in DOMAIN s : s[i] \in Range(Digits)
    THEN [ok |-> TRUE, val |-> DigitVal(s[1]) * 10 + DigitVal(s[2])]
    ELSE [ok |-> FALSE, val |-> 0]

\* the order of two ISO texts as TEXT values (ORDER BY timestamp)
RECURSIVE TextLeq(_, _)
TextLeq(a, b) ==
    IF a = <<>> THEN TRUE
    ELSE IF b = <<>> THEN FALSE
    ELSE IF Head(a) = Head(b) THEN TextLeq(Tail(a), Tail(b))
    ELSE DigitVal(Head(a)) < DigitVal(Head(b))

----------------------------------------------------------------------------
(* logger.py: LogEntry.to_dict / from_dict. A dict is a record of its keys and of
   the values under the keys date, level, message (empty when the key is absent). *)

K_date == <<"d", "a", "t", "e">>
K_level == <<"l", "e", "v", "e", "l">>
K_message == <<"m", "e", "s", "s", "a", "g", "e">>

Dict(keys, date, level, message) ==
    [type |-> "dict", keys |-> keys, date |-> date, level |-> level, message |-> message]

\* a value that is not a dict (None, a number, a string)
Item(type) == [type |-> type, keys |-> {}, date |-> <<>>, level |-> <<>>, message |-> <<>>]

\* d[key]
DictGet(d, key) ==
    IF key = K_date THEN d.date ELSE IF key = K_level THEN d.level ELSE d.message

\* the record of the older variant of the package: the message under the key msg
to_dict_msg_key(e) ==
    Dict({K_date, K_level, <<"m", "s", "g">>}, isoformat(e.date), e.level, <<>>)

\* LogEntry.to_dict
to_dict(e) == Dict({K_date, K_level, K_message}, isoformat(e.date), e.level, e.message)

from_dict_lenient(d) ==
    LET date_obj == fromisoformat(d.date)
    IN  LogEntry_init(PyDatetime(IF date_obj.ok THEN date_obj.val ELSE 0),
                      PyStr(IF K_level \in d.keys THEN d.level ELSE INFO), PyStr(d.message))

\* LogEntry.from_dict
from_dict(d) ==
    IF ~({K_date, K_level, K_message} \subseteq d.keys) THEN Raise("ValueError")
    ELSE LET date_obj == fromisoformat(d.date)
         IN  IF ~date_obj.ok THEN Raise("ValueError")
             ELSE LogEntry_init(PyDatetime(date_obj.val), PyStr(d.level), PyStr(d.message))

\* LogEntry.__str__
str(e) == <<"[">> \o isoformat(e.date) \o <<"]", " ">> \o e.level \o <<":", " ">> \o e.message

----------------------------------------------------------------------------
(* handlers.py. A write gives the exception it raises (if any) and the target it
   leaves; a retrieve method gives the exception or the value it returns: the type
   of the value and, for a list, its items. *)

Returned(top, items) == [exc |-> "", top |-> top, items |-> items]
Raised(e) == [exc |-> e, top |-> "NoneType", items |-> <<>>]

(* JsonHandler: the target is a file that is missing, zero-length ("empty"), not
   JSON ("malformed") or holds a JSON value: a list of items, or another value *)

JsonFile(kind, top, items) == [kind |-> kind, top |-> top, items |-> items]
JsonList(items) == JsonFile("json", "list", items)

JsonHandler_init_truncating(file) == JsonList(<<>>)

\* JsonHandler.__init__: an absent or zero-length file becomes []
JsonHandler_init(file) ==
    IF file.kind \in {"missing", "empty"} THEN JsonList(<<>>) ELSE file

\* json.load(f)
json_load(file) ==
    IF file.kind = "json" THEN Returned(file.top, file.items) ELSE Raised("JSONDecodeError")

JsonHandler_write_prepending(file, entry) ==
    LET loaded == IF file.kind \in {"missing", "empty"} THEN Returned("list", <<>>)
                  ELSE json_load(file)
        all_logs_data == IF loaded.exc # "" THEN Returned("list", <<>>) ELSE loaded
    IN  IF all_logs_data.top # "list" THEN [exc |-> "AttributeError", store |-> file]
        ELSE [exc |-> "", store |-> JsonList(<<to_dict(entry)>> \o all_logs_data.items)]

JsonHandler_write_strict(file, entry) ==
    LET loaded == IF file.kind \in {"missing", "empty"} THEN Returned("list", <<>>)
                  ELSE json_load(file)
    IN  IF loaded.exc # "" THEN [exc |-> loaded.exc, store |-> file]
        ELSE IF loaded.top # "list" THEN [exc |-> "AttributeError", store |-> file]
        ELSE [exc |-> "", store |-> JsonList(Append(loaded.items, to_dict(entry)))]

\* JsonHandler.write: read the array (an absent, zero-length or malformed file counts
\* as []), append the record, rewrite the file
JsonHandler_write(file, entry) ==
    LET loaded == IF file.kind \in {"missing", "empty"} THEN Returned("list", <<>>)
                  ELSE json_load(file)
        all_logs_data == IF loaded.exc # "" THEN Returned("list", <<>>) ELSE loaded
    IN  IF all_logs_data.top # "list" THEN [exc |-> "AttributeError", store |-> file]
        ELSE [exc |-> "", store |-> JsonList(Append(all_logs_data.items, to_dict(entry)))]

\* JsonHandler.write up to the append: all_logs_data as it is read from the file
JsonHandler_write_read(file) ==
    LET loaded == IF file.kind \in {"missing", "empty"} THEN Returned("list", <<>>)
                  ELSE json_load(file)
    IN  IF loaded.exc # "" THEN Returned("list", <<>>) ELSE loaded

\* open(self.filepath, "w"): the file is there, with zero length
open_w(file) == JsonFile("empty", "list", <<>>)

json_dump_keeping(file, items) ==
    IF file.kind = "json" /\ file.top = "list"
    THEN JsonList(Append(file.items, items[Len(items)]))
    ELSE JsonList(items)

\* json.dump(all_logs_data, f_out) on the file opened with "w": the file holds the
\* array, whatever it held
json_dump(file, items) == JsonList(items)

\* JsonHandler.retrieve_all_logs_json
retrieve_all_logs_json(file) ==
    IF file.kind \in {"missing", "empty"} THEN Returned("list", <<>>)
    ELSE LET loaded == json_load(file)
         IN  IF loaded.exc # "" THEN Returned("list", <<>>) ELSE loaded

(* CSVHandler: the target is a file that is missing or holds rows of fields *)

CsvFile(kind, rows) == [kind |-> kind, rows |-> rows]

\* CSVHandler.fieldnames
fieldnames == <<K_date, K_level, K_message>>

CSVHandler_init_heading(file) ==
    CsvFile("file", (IF file.kind = "missing" THEN <<>> ELSE file.rows) \o <<fieldnames>>)

\* CSVHandler.__init__: an absent or zero-length file gets the header row
CSVHandler_init(file) ==
    IF file.kind = "missing" \/ file.rows = <<>> THEN CsvFile("file", <<fieldnames>>)
    ELSE file

\* csv.DictWriter.writerow: the values of the dict in the order of the field names
writerow(names, d) == [i \in DOMAIN names |-> DictGet(d, names[i])]

\* CSVHandler.write: open in append mode, write one row
CSVHandler_write(file, entry) ==
    [exc |-> "",
     store |-> CsvFile("file", Append(IF file.kind = "missing" THEN <<>> ELSE file.rows,
                                      writerow(fieldnames, to_dict(entry))))]

\* csv.DictReader: one dict per row after the first, keyed by the first row
\* (every row of the model has as many fields as the first)
DictReader(rows) ==
    LET names == rows[1]
        ValueOf(row, key) ==
            IF \E i \in DOMAIN names : names[i] = key
            THEN row[CHOOSE i \in DOMAIN names :
                        names[i] = key /\ \A j \in DOMAIN names : names[j] = key => j <= i]
            ELSE <<>>
    IN  [n \in 1..(Len(rows) - 1) |->
            Dict(Range(names), ValueOf(rows[n + 1], K_date), ValueOf(rows[n + 1], K_level),
                 ValueOf(rows[n + 1], K_message))]

\* CSVHandler.retrieve_all_logs_csv
retrieve_all_logs_csv(file) ==
    IF file.kind = "file" /\ file.rows # <<>> THEN Returned("list", DictReader(file.rows))
    ELSE Returned("list", <<>>)

(* FileHandler: the target is a text file, missing or with its characters *)

TextFile(kind, text) == [kind |-> kind, text |-> text]

\* FileHandler.__init__: an absent file is created empty
FileHandler_init(file) == IF file.kind = "missing" THEN TextFile("file", <<>>) ELSE file

\* the log_line of FileHandler.write
log_line(entry) ==
    <<"[">> \o isoformat(entry.date) \o <<"]", " ">> \o entry.level \o <<":", " ">>
    \o entry.message \o <<"\n">>

\* FileHandler.write: append the line
FileHandler_write(file, entry) ==
    [exc |-> "",
     store |-> TextFile("file", (IF file.kind = "missing" THEN <<>> ELSE file.text)
                                \o log_line(entry))]

parse_line_keeping(line_content_str) ==
    LET parts == split(strip(line_content_str), " ", 2)
    IN  IF Len(parts) = 3
        THEN <<Dict({K_date, K_level, K_message}, parts[1], parts[2], parts[3])>>
        ELSE <<>>

\* the loop body of retrieve_all_logs_file: the records of one line (none or one)
parse_line(line_content_str) ==
    LET parts == split(strip(line_content_str), " ", 2)
    IN  IF Len(parts) = 3
        THEN <<Dict({K_date, K_level, K_message},
                    SubSeq(parts[1], 2, Len(parts[1]) - 1),
                    SubSeq(parts[2], 1, Len(parts[2]) - 1),
                    parts[3])>>
        ELSE <<>>

RECURSIVE parse_lines(_)
parse_lines(lines) ==
    IF lines = <<>> THEN <<>> ELSE parse_line(Head(lines)) \o parse_lines(Tail(lines))

\* FileHandler.retrieve_all_logs_file
retrieve_all_logs_file(file) ==
    IF file.kind = "file" /\ file.text # <<>>
    THEN Returned("list", parse_lines(readlines(file.text)))
    ELSE Returned("list", <<>>)

(* SQLLiteHandler: the target is a database file whose directory is missing
   ("nodir"), that is missing itself, that has no table of the handler's name
   ("notable"), or that holds the rows of that table in the order of their ids ("db") *)

Database(kind, rows) == [kind |-> kind, rows |-> rows]

\* SQLLiteHandler._ALLOWED_TABLE_NAMES
ALLOWED_TABLE_NAMES ==
    {<<"l", "o", "g", "s">>,
     <<"o", "t", "h", "e", "r", "_", "l", "o", "g", "s">>,
     <<"d", "e", "b", "u", "g", "_", "l", "o", "g", "s">>,
     <<"a", "p", "p", "_", "e", "v", "e", "n", "t", "s">>}

\* os.makedirs(os.path.dirname(self.db_path) or '.', exist_ok=True)
makedirs(db) == IF db.kind = "nodir" THEN Database("missing", <<>>) ELSE db

get_conn_context_unguarded(db, body) ==
    IF db.kind = "nodir" THEN <<>>
    ELSE IF body[Len(body)] = "execute" THEN <<"connect">> \o body
    ELSE <<"connect">> \o body \o <<"close">>

\* SQLLiteHandler._get_conn_context around the body of a with statement: what is
\* done to the database. sqlite3.connect raises when the directory of the file is
\* missing; once it has returned, the body runs and, whether the body returned or
\* raised, the finally clause closes the connection. A body that ends with
\* "execute" is one whose statement raised.
get_conn_context(db, body) ==
    IF db.kind = "nodir" THEN <<>> ELSE <<"connect">> \o body \o <<"close">>

\* SQLLiteHandler._create_table_if_not_exists: connect (the file comes into being),
\* CREATE TABLE IF NOT EXISTS, commit
create_table_if_not_exists(db) ==
    IF db.kind = "nodir"
    THEN [exc |-> "OperationalError", store |-> db, io |-> get_conn_context(db, <<>>)]
    ELSE [exc |-> "",
          store |-> IF db.kind = "db" THEN db ELSE Database("db", <<>>),
          io |-> get_conn_context(db, <<"execute", "commit">>)]

SQLLiteHandler_init_checking_late(db, table_name) ==
    LET created == create_table_if_not_exists(makedirs(db))
    IN  IF table_name \notin ALLOWED_TABLE_NAMES
        THEN [exc |-> "ValueError", store |-> created.store,
              io |-> <<"makedirs", "connect", "execute", "commit", "close">>]
        ELSE [exc |-> created.exc, store |-> created.store,
              io |-> <<"makedirs", "connect", "execute", "commit", "close">>]

\* SQLLiteHandler.__init__: the exception it raises (if any), the target it leaves
\* and the operations on the file system and the database it performed
SQLLiteHandler_init(db, table_name) ==
    IF table_name \notin ALLOWED_TABLE_NAMES
    THEN [exc |-> "ValueError", store |-> db, io |-> <<>>]
    ELSE LET created == create_table_if_not_exists(makedirs(db))
         IN  [exc |-> created.exc, store |-> created.store,
              io |-> <<"makedirs">> \o created.io]

\* SQLLiteHandler.write: INSERT INTO table (timestamp, level, message), commit.
\* Without the table the INSERT raises; connecting to a missing file creates it.
SQLLiteHandler_write(db, entry) ==
    IF db.kind # "db"
    THEN [exc |-> "OperationalError",
          store |-> IF db.kind = "missing" THEN Database("notable", <<>>) ELSE db,
          io |-> get_conn_context(db, <<"execute">>)]
    ELSE [exc |-> "",
          store |-> Database("db", Append(db.rows, [timestamp |-> isoformat(entry.date),
                                                    level |-> entry.level,
                                                    message |-> entry.message])),
          io |-> get_conn_context(db, <<"execute", "commit">>)]

order_by_id(rows) == rows

\* ORDER BY timestamp ASC: rows in the order of the timestamp texts, rows of one
\* timestamp in the order of their ids
RECURSIVE order_by_timestamp(_)
order_by_timestamp(rows) ==
    IF rows = <<>> THEN <<>>
    ELSE LET sorted_before == order_by_timestamp(SubSeq(rows, 1, Len(rows) - 1))
             last == rows[Len(rows)]
             keep == {i \in DOMAIN sorted_before :
                         TextLeq(sorted_before[i].timestamp, last.timestamp)}
             n == Cardinality(keep)
         IN  SubSeq(sorted_before, 1, n) \o <<last>>
             \o SubSeq(sorted_before, n + 1, Len(sorted_before))

\* SQLLiteHandler.retrieve_all_logs_sql
retrieve_all_logs_sql(db) ==
    IF db.kind # "db" THEN Returned("list", <<>>)
    ELSE LET rows == order_by_timestamp(db.rows)
         IN  Returned("list", [i \in DOMAIN rows |->
                 Dict({K_date, K_level, K_message}, rows[i].timestamp, rows[i].level,
                      rows[i].message)])

(* A Handler subclass of the caller's: its retrieve_all_logs_json raises or returns
   the value it is configured with *)

StubHandler(exc, top, items) == [kind |-> "stub", exc |-> exc, top |-> top, items |-> items]

retrieve_stub(stub) == IF stub.exc # "" THEN Raised(stub.exc) ELSE Returned(stub.top, stub.items)

----------------------------------------------------------------------------
(* logger.py: ProfilLoggerReader *)

\* Handler._get_supported_retrieve_methods: the retrieve_all_logs_* methods of the class
get_supported_retrieve_methods(b) ==
    CASE b = "json" -> {"retrieve_all_logs_json"}
      [] b = "csv" -> {"retrieve_all_logs_csv"}
      [] b = "file" -> {"retrieve_all_logs_file"}
      [] b = "sql" -> {"retrieve_all_logs_sql"}
      [] b = "stub" -> {"retrieve_all_logs_json"}

\* retrieve_method(): the method of that name, called on the handler
retrieve_method(method_name, b, st) ==
    CASE b = "json" -> retrieve_all_logs_json(st)
      [] b = "csv" -> retrieve_all_logs_csv(st)
      [] b = "file" -> retrieve_all_logs_file(st)
      [] b = "sql" -> retrieve_all_logs_sql(st)
      [] b = "stub" -> retrieve_stub(st)

\* what retrieve_all_logs_sql does to the database: the SELECT raises without the
\* table, and the except clause takes over once the connection is closed
retrieve_all_logs_sql_io(db) ==
    get_conn_context(db, IF db.kind = "db" THEN <<"execute", "fetchall">> ELSE <<"execute">>)

retrieve_leaves_draining(b, st) == IF b = "json" THEN JsonList(<<>>) ELSE st

\* the target a retrieve method leaves behind: the files are opened for reading;
\* sqlite3.connect brings a missing database file into being, without a table
retrieve_leaves(b, st) ==
    IF b = "sql" /\ st.kind = "missing" THEN Database("notable", <<>>) ELSE st

priority_order ==
    <<"retrieve_all_logs_json", "retrieve_all_logs_csv", "retrieve_all_logs_file",
      "retrieve_all_logs_sql">>

\* [LogEntry.from_dict(d) if isinstance(d, dict) else d for d in logs_data]:
\* a dict is rebuilt, anything else is passed on as it is
RECURSIVE rebuild(_)
rebuild(logs_data) ==
    IF logs_data = <<>> THEN [exc |-> "", logs |-> <<>>]
    ELSE LET d == Head(logs_data)
             r == IF d.type = "dict" THEN from_dict(d)
                  ELSE [ok |-> TRUE, exc |-> "", entry |-> Object(d.type)]
             rest == rebuild(Tail(logs_data))
         IN  IF ~r.ok THEN [exc |-> r.exc, logs |-> <<>>]
             ELSE IF rest.exc # "" THEN rest
             ELSE [exc |-> "", logs |-> <<r.entry>> \o rest.logs]

\* the try block of _get_all_logs_from_handler for one method
try_retrieve(method_name, b, st) ==
    LET logs_data == retrieve_method(method_name, b, st)
    IN  IF logs_data.exc # "" THEN [exc |-> logs_data.exc, logs |-> <<>>]
        ELSE IF logs_data.top \notin {"list", "dict"} THEN [exc |-> "TypeError", logs |-> <<>>]
        ELSE rebuild(logs_data.items)

RECURSIVE try_methods(_, _, _)
try_methods(order, b, st) ==
    IF order = <<>> THEN <<>>
    ELSE IF Head(order) \in get_supported_retrieve_methods(b)
    THEN LET r == try_retrieve(Head(order), b, st)
         IN  IF r.exc = "" THEN r.logs ELSE try_methods(Tail(order), b, st)
    ELSE try_methods(Tail(order), b, st)

\* ProfilLoggerReader._get_all_logs_from_handler
get_all_logs_from_handler(b, st) == try_methods(priority_order, b, st)

\* reading date, level or message of an object that is no LogEntry raises AttributeError
HasNoAttributes(all_logs) == \E i \in DOMAIN all_logs : all_logs[i].type # "LogEntry"

Value(v) == [exc |-> "", value |-> v]
Throw(e) == [exc |-> e, value |-> <<>>]

find_by_text_folding(all_logs, text, case_sensitive) ==
    LET Match(log) == Contains(lower(log.message), lower(text))
    IN  IF HasNoAttributes(all_logs) THEN Throw("AttributeError")
        ELSE Value(SelectSeq(all_logs, Match))

\* ProfilLoggerReader.find_by_text
find_by_text(all_logs, text, case_sensitive) ==
    LET needle == IF case_sensitive THEN text ELSE lower(text)
        Match(log) == Contains(IF case_sensitive THEN log.message ELSE lower(log.message),
                               needle)
    IN  IF HasNoAttributes(all_logs) THEN Throw("AttributeError")
        ELSE Value(SelectSeq(all_logs, Match))

find_by_level_verbatim(all_logs, level) ==
    LET Match(log) == log.level = level
    IN  IF level \notin Levels THEN Value(<<>>)
        ELSE IF HasNoAttributes(all_logs) THEN Throw("AttributeError")
        ELSE Value(SelectSeq(all_logs, Match))

\* ProfilLoggerReader.find_by_level
find_by_level(all_logs, level) ==
    LET target_level == upper(level)
        Match(log) == log.level = target_level
    IN  IF target_level \notin Levels THEN Value(<<>>)
        ELSE IF HasNoAttributes(all_logs) THEN Throw("AttributeError")
        ELSE Value(SelectSeq(all_logs, Match))

find_by_date_range_exclusive(all_logs, start_date, end_date) ==
    LET Match(log) == start_date <= log.date /\ log.date < end_date
    IN  IF HasNoAttributes(all_logs) THEN Throw("AttributeError")
        ELSE Value(SelectSeq(all_logs, Match))

\* ProfilLoggerReader.find_by_date_range
find_by_date_range(all_logs, start_date, end_date) ==
    LET Match(log) == start_date <= log.date /\ log.date <= end_date
    IN  IF HasNoAttributes(all_logs) THEN Throw("AttributeError")
        ELSE Value(SelectSeq(all_logs, Match))

\* ProfilLoggerReader.groupby_level
groupby_level(all_logs) ==
    IF HasNoAttributes(all_logs) THEN Throw("AttributeError")
    ELSE Value([level \in Levels |-> LET Match(log) == log.level = level
                                     IN  SelectSeq(all_logs, Match)])

RECURSIVE sorted_unstable(_, _)
sorted_unstable(list, reverse) ==
    IF list = <<>> THEN <<>>
    ELSE LET sorted_before == sorted_unstable(SubSeq(list, 1, Len(list) - 1), reverse)
             last == list[Len(list)]
             keep == {i \in DOMAIN sorted_before :
                         IF reverse THEN sorted_before[i].date > last.date
                         ELSE sorted_before[i].date <= last.date}
             n == Cardinality(keep)
         IN  SubSeq(sorted_before, 1, n) \o <<last>>
             \o SubSeq(sorted_before, n + 1, Len(sorted_before))

\* sorted(list, key=date, reverse=...): stable, also when reversed
RECURSIVE sorted(_, _)
sorted(list, reverse) ==
    IF list = <<>> THEN <<>>
    ELSE LET sorted_before == sorted(SubSeq(list, 1, Len(list) - 1), reverse)
             last == list[Len(list)]
             keep == {i \in DOMAIN sorted_before :
                         IF reverse THEN sorted_before[i].date >= last.date
                         ELSE sorted_before[i].date <= last.date}
             n == Cardinality(keep)
         IN  SubSeq(sorted_before, 1, n) \o <<last>>
             \o SubSeq(sorted_before, n + 1, Len(sorted_before))

\* ProfilLoggerReader.sort_by_date
sort_by_date(all_logs, ascending) ==
    IF HasNoAttributes(all_logs) THEN Throw("AttributeError")
    ELSE Value(sorted(all_logs, ~ascending))

----------------------------------------------------------------------------
(* The handlers and the Reader at work: one handler on its target, write calls on
   it and Reader calls bound to it *)

Entry(t, level, message) == LogEntry_init(PyDatetime(t), PyStr(level), PyStr(message)).entry

\* the entries passed to write
WriteEntries ==
    {Entry(0, INFO, <<"a">>),
     Entry(1, ERROR, <<"a", " ", "b">>),
     Entry(1, DEBUG, <<>>),
     Entry(2, WARNING, <<"b", " ">>),
     Entry(10, CRITICAL, <<"a", "\n", "b">>)}

\* the entry a target holds from an earlier run
Seed == Entry(1, WARNING, <<"b">>)

\* the targets a JsonHandler is constructed on: no file, a zero-length file, the file
\* of an earlier run, and files that were not written by the handler
JsonTargets ==
    {JsonFile("missing", "list", <<>>), JsonFile("empty", "list", <<>>),
     JsonList(<<to_dict(Seed)>>),
     JsonFile("malformed", "list", <<>>),
     JsonList(<<Item("NoneType")>>),
     JsonFile("json", "dict", <<Item("str")>>)}

CsvTargets ==
    {CsvFile("missing", <<>>), CsvFile("file", <<>>),
     CsvFile("file", <<fieldnames, writerow(fieldnames, to_dict(Seed))>>)}

\* the targets a FileHandler is constructed on: no file, the file of an earlier run,
\* and files with a line that the handler did not write: a line without brackets
\* and colon between two lines of the handler, and a line whose bracketed text is
\* no date
FileTargets ==
    {TextFile("missing", <<>>), TextFile("file", log_line(Seed)),
     TextFile("file", log_line(Seed) \o <<"x", "\n">> \o log_line(Entry(0, INFO, <<"a">>))),
     TextFile("file", log_line(Seed) \o <<"[", "x", "]", " ">> \o INFO \o <<":", " ", "a", "\n">>)}

SqlTargets ==
    {Database("nodir", <<>>), Database("missing", <<>>), Database("notable", <<>>),
     Database("db", <<[timestamp |-> isoformat(Seed.date), level |-> Seed.level,
                       message |-> Seed.message]>>)}

\* what the retrieve method of the caller's Handler subclass does
StubTargets ==
    {StubHandler("IOError", "list", <<>>),
     StubHandler("", "NoneType", <<>>),
     StubHandler("", "list", <<to_dict(Seed), to_dict(Entry(0, INFO, <<"a">>))>>),
     StubHandler("", "list", <<Dict({K_date, K_level}, isoformat(0), INFO, <<>>)>>),
     StubHandler("", "list", <<to_dict(Seed), Dict({K_date, K_level, K_message}, <<"x">>, INFO, <<"a">>)>>),
     StubHandler("", "list", <<to_dict(Seed), Item("NoneType")>>)}

Backends == {"json", "csv", "file", "sql", "stub"}

Targets(b) ==
    CASE b = "json" -> JsonTargets
      [] b = "csv" -> CsvTargets
      [] b = "file" -> FileTargets
      [] b = "sql" -> SqlTargets
      [] b = "stub" -> StubTargets

\* the table names SQLLiteHandler is constructed with: the default, another allowed
\* name, and names outside the allow-list
TableNames ==
    {<<"l", "o", "g", "s">>, <<"a", "p", "p", "_", "e", "v", "e", "n", "t", "s">>,
     <<"u", "s", "e", "r", "s">>, <<"L", "O", "G", "S">>, <<>>}

\* the constructor of a file handler class, on a target: the file it leaves
file_handler_init(b, target) ==
    CASE b = "json" -> JsonHandler_init(target)
      [] b = "csv" -> CSVHandler_init(target)
      [] b = "file" -> FileHandler_init(target)

\* the constructor of the handler class, on a target: its exception, the target it
\* leaves and what it did to the file system (makedirs; open when it writes the file)
handler_init(b, target, table_name) ==
    CASE b = "sql" -> SQLLiteHandler_init(target, table_name)
      [] b = "stub" -> [exc |-> "", store |-> target, io |-> <<>>]
      [] OTHER -> [exc |-> "", store |-> file_handler_init(b, target),
                   io |-> IF file_handler_init(b, target) = target THEN <<"makedirs">>
                          ELSE <<"makedirs", "open">>]

\* the target is new, or holds what this handler class wrote in an earlier run
IsOwnTarget(b, target) ==
    CASE b = "json" -> target.kind \in {"missing", "empty"} \/ target = JsonList(<<to_dict(Seed)>>)
      [] b = "file" -> target.kind = "missing" \/ target = TextFile("file", log_line(Seed))
      [] b = "stub" -> FALSE
      [] OTHER -> TRUE

NoEntry == Object("NoneType")

\* the connections an operation leaves open: those it opened less those it closed
still_open(events) ==
    Cardinality({i \in DOMAIN events : events[i] = "connect"})
    - Cardinality({i \in DOMAIN events : events[i] = "close"})

RCall(op, entry, text, flag, start_date, end_date) ==
    [op |-> op, entry |-> entry, text |-> text, flag |-> flag,
     start_date |-> start_date, end_date |-> end_date]

\* a write call on the handler, given what the write method does
WriteCall(r, entry) ==
    /\ initial.exc = ""
    /\ Len(written) < MaxWrites
    /\ store' = r.store
    /\ written' = IF r.exc = "" THEN Append(written, entry) ELSE written
    /\ rcall' = RCall("write", entry, <<>>, FALSE, 0, 0)
    /\ observed' = <<>>
    /\ result' = IF r.exc = "" THEN Value(<<>>) ELSE Throw(r.exc)
    /\ io' = IF backend = "sql" THEN r.io ELSE <<>>
    /\ connections' = connections + still_open(io')
    /\ UNCHANGED <<backend, initial>>
    /\ UNCHANGED loggerVars
    /\ UNCHANGED entryVars
    /\ UNCHANGED raceVars

JsonWrite == backend = "json" /\ \E e \in WriteEntries : WriteCall(JsonHandler_write(store, e), e)

CsvWrite == backend = "csv" /\ \E e \in WriteEntries : WriteCall(CSVHandler_write(store, e), e)

FileWrite == backend = "file" /\ \E e \in WriteEntries : WriteCall(FileHandler_write(store, e), e)

SqlWrite == backend = "sql" /\ \E e \in WriteEntries : WriteCall(SQLLiteHandler_write(store, e), e)

\* the arguments of the Reader calls
Texts == {<<"a">>, <<"A">>, <<"b", " ">>}
LevelArgs == {lower(INFO), ERROR, <<"t", "r", "a", "c", "e">>}
\* the (start_date, end_date) pairs: the whole clock, one instant, two instants, and
\* a start after the end
DateRanges == {<<0, MaxTime>>, <<1, 1>>, <<1, 2>>, <<2, 1>>}

\* a Reader call: the logs it retrieved and what it gave its caller
ReaderCall(logs, r, c) ==
    /\ initial.exc = ""
    /\ observed' = logs
    /\ result' = r
    /\ rcall' = c
    /\ store' = retrieve_leaves(backend, store)
    /\ io' = IF backend = "sql" THEN retrieve_all_logs_sql_io(store) ELSE <<>>
    /\ connections' = connections + still_open(io')
    /\ UNCHANGED <<backend, initial, written>>
    /\ UNCHANGED loggerVars
    /\ UNCHANGED entryVars
    /\ UNCHANGED raceVars

\* each query starts with all_logs = self._get_all_logs_from_handler()
FindByText ==
    LET all_logs == get_all_logs_from_handler(backend, store)
    IN  \E text \in Texts, case_sensitive \in BOOLEAN :
            ReaderCall(all_logs, find_by_text(all_logs, text, case_sensitive),
                       RCall("find_by_text", NoEntry, text, case_sensitive, 0, 0))

FindByLevel ==
    LET all_logs == get_all_logs_from_handler(backend, store)
    IN  \E level \in LevelArgs :
            ReaderCall(all_logs, find_by_level(all_logs, level),
                       RCall("find_by_level", NoEntry, level, FALSE, 0, 0))

FindByDateRange ==
    LET all_logs == get_all_logs_from_handler(backend, store)
    IN  \E range \in DateRanges :
            ReaderCall(all_logs, find_by_date_range(all_logs, range[1], range[2]),
                       RCall("find_by_date_range", NoEntry, <<>>, FALSE, range[1], range[2]))

GroupByLevel ==
    LET all_logs == get_all_logs_from_handler(backend, store)
    IN  ReaderCall(all_logs, groupby_level(all_logs),
                   RCall("groupby_level", NoEntry, <<>>, FALSE, 0, 0))

SortByDate ==
    LET all_logs == get_all_logs_from_handler(backend, store)
    IN  \E ascending \in BOOLEAN :
            ReaderCall(all_logs, sort_by_date(all_logs, ascending),
                       RCall("sort_by_date", NoEntry, <<>>, ascending, 0, 0))

\* the table_name argument of the constructor (SQLLiteHandler alone takes one)
TableArgs(b) == IF b = "sql" THEN TableNames ELSE {<<>>}

\* a handler of the same class is constructed again on the target as it is, with
\* the table name of the first construction or with a name outside the allow-list
Reconstruct ==
    /\ initial.exc = ""
    /\ backend \in {"json", "csv", "file", "sql"}
    /\ \E table_name \in {initial.table_name} \cup (TableArgs(backend) \ ALLOWED_TABLE_NAMES) :
           LET r == handler_init(backend, store, table_name)
           IN  /\ store' = r.store
               /\ rcall' = RCall("construct", NoEntry, table_name, FALSE, 0, 0)
               /\ result' = [exc |-> r.exc, value |-> r.io]
               /\ io' = IF backend = "sql" THEN r.io ELSE <<>>
    /\ connections' = connections + still_open(io')
    /\ observed' = <<>>
    /\ UNCHANGED <<backend, initial, written>>
    /\ UNCHANGED loggerVars
    /\ UNCHANGED entryVars
    /\ UNCHANGED raceVars

\* between the construction and the first write the JSON file, still an empty
\* array, is removed or truncated to zero length by someone else
RemoveOrTruncate ==
    /\ initial.exc = ""
    /\ backend = "json" /\ store = JsonList(<<>>) /\ written = <<>>
    /\ \E kind \in {"missing", "empty"} : store' = JsonFile(kind, "list", <<>>)
    /\ rcall' = RCall("remove", NoEntry, <<>>, FALSE, 0, 0)
    /\ observed' = <<>>
    /\ result' = Value(<<>>)
    /\ UNCHANGED <<backend, initial, written, connections, io>>
    /\ UNCHANGED loggerVars
    /\ UNCHANGED entryVars
    /\ UNCHANGED raceVars

\* between the construction and the first write the table of the database, still
\* empty, is dropped by someone else, or the directory of the database file is removed
DropOrRemove ==
    /\ initial.exc = ""
    /\ backend = "sql" /\ store = Database("db", <<>>) /\ written = <<>>
    /\ \E kind \in {"notable", "nodir"} : store' = Database(kind, <<>>)
    /\ rcall' = RCall("drop", NoEntry, <<>>, FALSE, 0, 0)
    /\ observed' = <<>>
    /\ result' = Value(<<>>)
    /\ UNCHANGED <<backend, initial, written, connections, io>>
    /\ UNCHANGED loggerVars
    /\ UNCHANGED entryVars
    /\ UNCHANGED raceVars

\* the handler is constructed on a target and, unless the constructor raised, a
\* Reader is bound to it
InitStore ==
    /\ backend \in Backends
    /\ \E target \in Targets(backend), table_name \in TableArgs(backend) :
           LET r == handler_init(backend, target, table_name)
               own == r.exc = "" /\ IsOwnTarget(backend, target)
           IN  /\ store = r.store
               /\ initial = [own |-> own,
                             items |-> IF own THEN retrieve_method("", backend, r.store).items
                                       ELSE <<>>,
                             exc |-> r.exc,
                             table_name |-> table_name]
               /\ rcall = RCall("init", NoEntry, table_name, FALSE, 0, 0)
               /\ result = [exc |-> r.exc, value |-> r.io]
               /\ io = IF backend = "sql" THEN r.io ELSE <<>>
    /\ connections = still_open(io)
    /\ written = <<>>
    /\ observed = <<>>

NextStore ==
    \/ Reconstruct \/ RemoveOrTruncate \/ DropOrRemove
    \/ JsonWrite \/ CsvWrite \/ FileWrite \/ SqlWrite
    \/ FindByText \/ FindByLevel \/ FindByDateRange \/ GroupByLevel \/ SortByDate

----------------------------------------------------------------------------
(* LogEntry at work: an entry is constructed from its arguments, converted with
   to_dict() and built again with from_dict() *)

\* the date-times an entry is constructed with
EntryTimes == (0..MaxTime) \cup {10, 99}

\* the arguments of LogEntry(date, level, message): valid ones, and values of
\* another type or another letter case
EntryArgs ==
    [date : {PyDatetime(t) : t \in EntryTimes} \cup {PyStr(isoformat(0))},
     level : {PyStr(l) : l \in Levels} \cup {PyStr(lower(INFO)), PyNone},
     message : {PyStr(<<>>), PyStr(<<"a">>), PyStr(<<"a", "\n", " ", "B">>), PyNone}]

\* no constructor has been called yet
NotMade == [ok |-> FALSE, exc |-> "", entry |-> Object("NoneType")]
NoDict == Item("NoneType")

\* no arguments: from_dict is called on a record that is given
NoArgs == [date |-> PyNone, level |-> PyNone, message |-> PyNone]

\* the records given to from_dict: with a field absent, with a date that is no ISO
\* text, with a level in lower case, and records that can be rebuilt
GivenRecords ==
    {Dict({K_level, K_message}, <<>>, INFO, <<"a">>),
     Dict({K_date, K_message}, isoformat(0), <<>>, <<"a">>),
     Dict({K_date, K_level}, isoformat(0), INFO, <<>>),
     Dict({}, <<>>, <<>>, <<>>),
     Dict({K_date, K_level, K_message}, <<"x">>, INFO, <<"a">>),
     Dict({K_date, K_level, K_message}, <<"1">>, INFO, <<"a">>),
     Dict({K_date, K_level, K_message}, <<>>, INFO, <<"a">>),
     Dict({K_date, K_level, K_message}, isoformat(1), lower(INFO), <<"a">>),
     Dict({K_date, K_level, K_message, <<"i", "d">>}, isoformat(2), ERROR, <<"a", " ", "b">>),
     Dict({K_date, K_level, K_message}, isoformat(10), DEBUG, <<>>)}

\* LogEntry(date, level, message)
NewLogEntry ==
    /\ args # NoArgs
    /\ made = NotMade
    /\ made' = LogEntry_init(args.date, args.level, args.message)
    /\ UNCHANGED <<args, data, restored>>
    /\ UNCHANGED loggerVars
    /\ UNCHANGED storeVars
    /\ UNCHANGED raceVars

\* entry.to_dict()
ToDict ==
    /\ made.ok
    /\ data = NoDict
    /\ data' = to_dict(made.entry)
    /\ UNCHANGED <<args, made, restored>>
    /\ UNCHANGED loggerVars
    /\ UNCHANGED storeVars
    /\ UNCHANGED raceVars

\* LogEntry.from_dict(data)
FromDict ==
    /\ data.type = "dict"
    /\ restored = NotMade
    /\ restored' = from_dict(data)
    /\ UNCHANGED <<args, made, data>>
    /\ UNCHANGED loggerVars
    /\ UNCHANGED storeVars
    /\ UNCHANGED raceVars

\* the arguments of a LogEntry are chosen, or a record is given to from_dict
InitEntry ==
    /\ \/ args \in EntryArgs /\ data = NoDict
       \/ args = NoArgs /\ data \in GivenRecords
    /\ made = NotMade
    /\ restored = NotMade

NextEntry == NewLogEntry \/ ToDict \/ FromDict

----------------------------------------------------------------------------
(* Two JsonHandler objects on one file, each in a thread of its own: a write call is
   three steps, the read of the array, open(filepath, "w") and json.dump, and the
   steps of the two calls come in any interleaving *)

Writers == {1, 2}

\* the other writer's write call is between its read and the end of its rewrite
UnderWay(w) == \E v \in Writers \ {w} : pc[v] \in {"read", "opened"}

\* write, as far as all_logs_data.append(entry.to_dict()): the array is read and
\* the record appended; a JSON value that is no array has no append
Read(w) ==
    /\ pc[w] = "start"
    /\ LET all_logs_data == JsonHandler_write_read(shared)
       IN  IF all_logs_data.top # "list"
           THEN /\ pc' = [pc EXCEPT ![w] = "AttributeError"]
                /\ local' = local
           ELSE /\ pc' = [pc EXCEPT ![w] = "read"]
                /\ local' = [local EXCEPT ![w] = Append(all_logs_data.items,
                                                        to_dict(writing[w]))]
    /\ overlapped' = (overlapped \/ UnderWay(w))
    /\ UNCHANGED <<shared, at_start, writing, finished>>
    /\ UNCHANGED loggerVars
    /\ UNCHANGED storeVars
    /\ UNCHANGED entryVars

\* with open(self.filepath, "w", encoding='utf-8') as f_out
OpenW(w) ==
    /\ pc[w] = "read"
    /\ shared' = open_w(shared)
    /\ pc' = [pc EXCEPT ![w] = "opened"]
    /\ UNCHANGED <<at_start, writing, local, finished, overlapped>>
    /\ UNCHANGED loggerVars
    /\ UNCHANGED storeVars
    /\ UNCHANGED entryVars

\* json.dump(all_logs_data, f_out, ...) and the end of the with block: write returns
Dump(w) ==
    /\ pc[w] = "opened"
    /\ shared' = json_dump(shared, local[w])
    /\ pc' = [pc EXCEPT ![w] = "returned"]
    /\ finished' = Append(finished, w)
    /\ UNCHANGED <<at_start, writing, local, overlapped>>
    /\ UNCHANGED loggerVars
    /\ UNCHANGED storeVars
    /\ UNCHANGED entryVars

\* the two handlers are constructed on the file, and each is given an entry to write
InitRace ==
    /\ \E target \in JsonTargets : at_start = JsonHandler_init(JsonHandler_init(target))
    /\ shared = at_start
    /\ writing \in {f \in [Writers -> WriteEntries] : f[1] # f[2]}
    /\ pc = [w \in Writers |-> "start"]
    /\ local = [w \in Writers |-> <<>>]
    /\ finished = <<>>
    /\ overlapped = FALSE

NextRace == \E w \in Writers : Read(w) \/ OpenW(w) \/ Dump(w)

----------------------------------------------------------------------------
(* The specifications *)

\* no second writer: the file of the race is not in use
RaceIdle ==
    /\ shared = JsonList(<<>>)
    /\ at_start = JsonList(<<>>)
    /\ writing = [w \in Writers |-> NoEntry]
    /\ pc = [w \in Writers |-> "returned"]
    /\ local = [w \in Writers |-> <<>>]
    /\ finished = <<>>
    /\ overlapped = FALSE

\* the logger alone: no handler target and no Reader in use
StoreIdle ==
    /\ backend = "stub"
    /\ store = StubHandler("", "list", <<>>)
    /\ initial = [own |-> FALSE, items |-> <<>>, exc |-> "", table_name |-> <<>>]
    /\ written = <<>>
    /\ connections = 0
    /\ io = <<>>
    /\ rcall = RCall("init", NoEntry, <<>>, FALSE, 0, 0)
    /\ observed = <<>>
    /\ result = Value(<<>>)

\* one handler and its Reader alone: a logger without handlers that is not called
LoggerIdle == InitLogger /\ handlers = <<>>

\* no LogEntry is constructed outside the logger and the Reader
EntryIdle ==
    /\ args = NoArgs
    /\ made = NotMade
    /\ data = NoDict
    /\ restored = NotMade

\* a logger is constructed
InitLoggerAlone == InitLogger /\ StoreIdle /\ EntryIdle /\ RaceIdle

\* a handler is constructed on a target and a Reader on the handler
InitStoreAlone == InitStore /\ LoggerIdle /\ EntryIdle /\ RaceIdle

\* the arguments of a LogEntry are chosen
InitEntryAlone == InitEntry /\ LoggerIdle /\ StoreIdle /\ RaceIdle

\* two handlers are constructed on one file
InitRaceAlone == InitRace /\ LoggerIdle /\ StoreIdle /\ EntryIdle

SpecLogger == InitLoggerAlone /\ [][NextLogger]_vars

SpecStore == InitStoreAlone /\ [][NextStore]_vars

SpecEntry == InitEntryAlone /\ [][NextEntry]_vars

SpecRace == InitRaceAlone /\ [][NextRace]_vars

----------------------------------------------------------------------------
(* The ProfilLogger claims, checked under SpecLogger *)

\* the five levels in their order, as the specification gives them
FiveLevels == {DEBUG, INFO, WARNING, ERROR, CRITICAL}
Rank(l) == CHOOSE r \in 0..4 : <<DEBUG, INFO, WARNING, ERROR, CRITICAL>>[r + 1] = l

LogOps == {"debug", "info", "warning", "error", "critical"}
LevelOfOp == [debug |-> DEBUG, info |-> INFO, warning |-> WARNING, error |-> ERROR,
              critical |-> CRITICAL]
IsLogCall == call.op \in LogOps
IsTextCall == IsLogCall /\ call.arg.type = "str"
WrittenHandlers == {writes[i].handler : i \in DOMAIN writes}

\* C1: a log call (with a text message) at level L under threshold T invokes no
\* handler's write when rank(L) < rank(T) and the write of every handler when
\* rank(L) >= rank(T); under threshold DEBUG every level is written, and under the
\* default threshold INFO a debug call writes nothing.
C1_LevelGate ==
    IsTextCall =>
        /\ call.level = LevelOfOp[call.op]
        /\ Rank(call.level) < Rank(call.threshold) => writes = <<>>
        /\ Rank(call.level) >= Rank(call.threshold) => WrittenHandlers = Range(handlers)
        /\ call.threshold = DEBUG => WrittenHandlers = Range(handlers)
        /\ (call.threshold = INFO /\ call.op = "debug") => writes = <<>>

C1_Witness ==
    /\ call.op = "debug" /\ call.threshold = DEBUG /\ call.arg.type = "str"
    /\ Len(handlers) = 2 /\ Len(writes) = 2

\* C2: when a log call passes the threshold and the write of a handler raises, the
\* write of every other handler, before and after it in the list, is still invoked
\* with the same entry, and the call returns normally.
C2_FailureIsolated ==
    (IsTextCall /\ should_log(call.level, call.threshold) /\ call.failing # {}) =>
        /\ outcome = "returned"
        /\ Len(built) = 1
        /\ \A h \in Range(handlers) :
               \E i \in DOMAIN writes : writes[i].handler = h /\ writes[i].entry = built[1]
        /\ \A i \in DOMAIN writes : writes[i].raised <=> writes[i].handler \in call.failing

C2_Witness ==
    /\ IsTextCall /\ Len(handlers) = 2 /\ call.failing = {handlers[1]}
    /\ Len(writes) = 2 /\ writes[1].raised /\ ~writes[2].raised
    /\ outcome = "returned"

\* C3: a log call that passes the threshold constructs exactly one LogEntry (the
\* clock's time at the call, the call's level and message) and invokes write exactly
\* once on each handler, in the order of the handlers list, with that same entry.
C3_OneEntryInOrder ==
    (IsTextCall /\ Rank(call.level) >= Rank(call.threshold)) =>
        /\ built = <<[type |-> "LogEntry", date |-> call.at, level |-> LevelOfOp[call.op],
                      message |-> call.arg.val]>>
        /\ Len(writes) = Len(handlers)
        /\ \A i \in DOMAIN writes :
               writes[i].handler = handlers[i] /\ writes[i].entry = built[1]

C3_Witness ==
    /\ call.op = "error" /\ call.arg = PyStr(<<"a">>) /\ call.at = 1
    /\ handlers = <<2, 1>> /\ Len(writes) = 2 /\ writes[1].handler = 2

\* C4: in every reachable state the threshold is one of DEBUG, INFO, WARNING, ERROR,
\* CRITICAL in upper case, and it is INFO right after construction.
C4_ThresholdValid ==
    /\ log_level \in FiveLevels
    /\ call.op = "init" => log_level = INFO

C4_Witness ==
    /\ call.op = "set_log_level" /\ call.arg = PyStr(lower(CRITICAL))
    /\ log_level = CRITICAL /\ call.threshold = WARNING

\* the name is one of the five level names, in some letter case
NamesLevel(name, l) == name.type = "str" /\ lower(name.val) = lower(l)

\* C5: set_log_level(name) with name one of the five level names in any letter case
\* replaces the threshold with the upper-case level name, and the log calls that
\* follow are gated by the new threshold.
C5_SetLevelAnyCase ==
    /\ call.op = "set_log_level" =>
           \A l \in FiveLevels :
               NamesLevel(call.arg, l) => (log_level = l /\ outcome = "returned")
    /\ (IsTextCall /\ handlers # <<>>) =>
           (writes # <<>> <=> Rank(call.level) >= Rank(log_level))

C5_Witness ==
    /\ call.op = "set_log_level" /\ call.arg = PyStr(<<"E", "r", "r", "o", "r">>)
    /\ call.threshold = INFO /\ log_level = ERROR

\* C6: set_log_level(name) with a name that is none of the five level names in any
\* letter case raises ValueError to the caller, leaves the threshold as it was and
\* touches no handler.
C6_BadLevelRejected ==
    (/\ call.op = "set_log_level"
     /\ call.arg.type = "str"
     /\ \A l \in FiveLevels : ~NamesLevel(call.arg, l)) =>
        /\ outcome = "ValueError"
        /\ log_level = call.threshold
        /\ writes = <<>> /\ built = <<>>

C6_Witness ==
    /\ call.op = "set_log_level" /\ call.arg = PyStr(<<"W", "A", "R", "N">>)
    /\ call.threshold = ERROR /\ log_level = ERROR /\ outcome = "ValueError"

\* C30: a log call whose message is not text raises a validation error (TypeError)
\* to the caller, before any handler is touched, if and only if the level of the
\* call passes the threshold; below the threshold the same call returns silently,
\* constructing no entry and touching no handler.
C30_ValidationGated ==
    (IsLogCall /\ call.arg.type # "str") =>
        /\ built = <<>> /\ writes = <<>>
        /\ outcome = "TypeError" <=> Rank(call.level) >= Rank(call.threshold)
        /\ outcome = "returned" <=> Rank(call.level) < Rank(call.threshold)

C30_Witness ==
    /\ IsLogCall /\ call.arg = PyNone /\ handlers # <<>>
    /\ call.level = WARNING /\ call.threshold = ERROR
    /\ outcome = "returned" /\ built = <<>> /\ writes = <<>>

----------------------------------------------------------------------------
(* The handler and Reader claims, checked under SpecStore *)

QueryOps == {"find_by_text", "find_by_level", "find_by_date_range", "groupby_level",
             "sort_by_date"}
IsQuery == rcall.op \in QueryOps
RealBackends == {"json", "csv", "file", "sql"}

\* what the handler's retrieve method gives on the target as it is
Retrieved == retrieve_method("", backend, store)

\* the retrieval fails: the retrieve method raises, returns no list, or returns a
\* record that cannot be rebuilt into a LogEntry
CanBeRebuilt(d) == d.type = "dict" /\ from_dict(d).ok
RetrievalFails ==
    \/ Retrieved.exc # ""
    \/ Retrieved.top # "list"
    \/ \E i \in DOMAIN Retrieved.items : ~CanBeRebuilt(Retrieved.items[i])

\* the result of the last query is empty: an empty list, or five empty groups
EmptyResult ==
    IF rcall.op = "groupby_level"
    THEN DOMAIN result.value = FiveLevels /\ \A l \in FiveLevels : result.value[l] = <<>>
    ELSE result.value = <<>>

\* C7: no Reader query raises to the caller when the retrieval fails: if the
\* handler's retrieve method raises, returns nothing usable or returns records that
\* cannot be rebuilt into LogEntry values, the query returns an empty result.
C7_ReaderNeverRaises ==
    IsQuery => (result.exc = "" /\ (RetrievalFails => EmptyResult))

\* the part of C7 the code keeps: a retrieve method that raises or returns no list,
\* and dict records that cannot be rebuilt, end in an empty result
C7_DictFailuresAbsorbed ==
    (/\ IsQuery
     /\ RetrievalFails
     /\ \A i \in DOMAIN Retrieved.items : Retrieved.items[i].type = "dict") =>
        (result.exc = "" /\ EmptyResult)

\* the new entry is among the logs
Observes(logs, entry) == \E j \in DOMAIN logs : logs[j] = entry

\* C8: the Reader keeps no cache: a query issued after a persist observes the newly
\* persisted entry, and two queries with no persist between them observe the same
\* record set.
C8_QuerySeesPersisted ==
    [][(rcall'.op \in QueryOps) =>
          /\ (backend \in RealBackends /\ written # <<>>) =>
                 Observes(observed', written[Len(written)])
          /\ rcall.op \in QueryOps => observed' = observed]_vars

\* the part of C8 the code keeps: every query works on what the handler retrieves
\* from the target as it is at the query
C8_RetrievedAnew == IsQuery => observed = get_all_logs_from_handler(backend, store)

RECURSIVE Records(_)
Records(entries) ==
    IF entries = <<>> THEN <<>> ELSE <<to_dict(Head(entries))>> \o Records(Tail(entries))

\* C9: for the JSON and the CSV backend, after n write calls on a new or an already
\* populated target, retrieval returns the records stored before followed by exactly
\* the n new records, in append order, each equal to the entry's to_dict().
C9_AppendOrder ==
    (backend \in {"json", "csv"} /\ initial.own) =>
        Retrieved = Returned("list", initial.items \o Records(written))

C9_Witness ==
    /\ backend = "json" /\ initial.items = <<to_dict(Seed)>>
    /\ Len(written) = 2 /\ written[1] # written[2]
    /\ Len(Retrieved.items) = 3 /\ Retrieved.items[3] = to_dict(written[2])

\* C10: for each of the four backends and every valid entry, after write(entry) a
\* Reader bound to the handler gets a record set that holds an entry with the same
\* timestamp, level and message, and as many entries as were written.
C10_WriteThenRead ==
    (backend \in RealBackends /\ initial.own) =>
        LET logs == get_all_logs_from_handler(backend, store)
        IN  /\ Len(logs) = Len(initial.items) + Len(written)
            /\ \A i \in DOMAIN written : Observes(logs, written[i])

\* the part of C10 the code keeps: the JSON, CSV and SQL backends give back every
\* entry written
C10_StructuredBackends ==
    (backend \in {"json", "csv", "sql"} /\ initial.own) =>
        LET logs == get_all_logs_from_handler(backend, store)
        IN  /\ Len(logs) = Len(initial.items) + Len(written)
            /\ \A i \in DOMAIN written : Observes(logs, written[i])

\* C12: constructing a handler of any of the four backends on a target that holds
\* persisted entries removes and alters none of them: what was retrievable before
\* the construction is retrievable after it, in the same positions.
C12_ConstructKeeps ==
    [][(rcall'.op = "construct" /\ backend \in RealBackends) =>
          retrieve_method("", backend, store') = retrieve_method("", backend, store)]_vars

C12_Witness ==
    /\ rcall.op = "construct" /\ result.exc = "" /\ backend = "file"
    /\ Len(written) = 2 /\ Len(Retrieved.items) = 3

\* the allow-list as the specification gives it
AllowList ==
    {<<"l", "o", "g", "s">>, <<"o", "t", "h", "e", "r", "_", "l", "o", "g", "s">>,
     <<"d", "e", "b", "u", "g", "_", "l", "o", "g", "s">>,
     <<"a", "p", "p", "_", "e", "v", "e", "n", "t", "s">>}
IsConstruction == backend = "sql" /\ rcall.op \in {"init", "construct"}

\* C13: constructing SQLLiteHandler with a table name outside the allow-list raises
\* ValueError before any I/O: no directory, no database file and no table comes
\* into being and nothing is opened; with an allow-listed name the construction
\* succeeds and the table exists afterwards.
C13_TableAllowList ==
    /\ [](IsConstruction =>
             IF rcall.text \in AllowList
             THEN result.exc = "" /\ store.kind = "db" /\ "connect" \in Range(result.value)
             ELSE /\ result.exc = "ValueError"
                  /\ result.value = <<>>
                  /\ rcall.op = "init" => (store \in SqlTargets /\ initial.exc = "ValueError"))
    /\ [][(backend = "sql" /\ rcall'.op = "construct" /\ rcall'.text \notin AllowList) =>
             store' = store]_vars

C13_Witness ==
    /\ backend = "sql" /\ rcall.op = "init" /\ rcall.text = <<"u", "s", "e", "r", "s">>
    /\ store = Database("nodir", <<>>) /\ result.exc = "ValueError"

\* the number of times r occurs in the sequence
Count(items, r) == Cardinality({i \in DOMAIN items : items[i] = r})

\* the date-time an ISO text stands for
TimeOf(text) == DigitVal(text[1]) * 10 + DigitVal(text[2])

\* C14: for the SQL backend, whatever the order of insertion, retrieve_all_logs_sql
\* returns every stored entry as a record {date, level, message}, in non-decreasing
\* order of the timestamps.
C14_SqlOrdered ==
    (backend = "sql" /\ initial.exc = "") =>
        LET expected == initial.items \o Records(written)
        IN  /\ Retrieved.exc = "" /\ Retrieved.top = "list"
            /\ Len(Retrieved.items) = Len(expected)
            /\ \A i \in DOMAIN expected :
                   Count(Retrieved.items, expected[i]) = Count(expected, expected[i])
            /\ \A i, j \in DOMAIN Retrieved.items :
                   i < j => TimeOf(Retrieved.items[i].date) <= TimeOf(Retrieved.items[j].date)

C14_Witness ==
    /\ backend = "sql" /\ Len(written) = 2 /\ written[1].date = 10 /\ written[2].date = 2
    /\ Len(Retrieved.items) = 3
    /\ Retrieved.items[2] = to_dict(written[2]) /\ Retrieved.items[3] = to_dict(written[1])

\* C15: after any sequence of CSVHandler constructions and write calls on one
\* target, the file is one header row date,level,message followed by one data row
\* per write call, in call order; no second header row is ever written.
C15_CsvOneHeader ==
    backend = "csv" =>
        LET before == Len(initial.items)
        IN  /\ store.kind = "file"
            /\ Len(store.rows) = 1 + before + Len(written)
            /\ store.rows[1] = <<K_date, K_level, K_message>>
            /\ \A i \in 2..Len(store.rows) : store.rows[i] # <<K_date, K_level, K_message>>
            /\ \A i \in DOMAIN written :
                   store.rows[1 + before + i]
                       = <<isoformat(written[i].date), written[i].level, written[i].message>>

C15_Witness ==
    /\ backend = "csv" /\ rcall.op = "construct" /\ Len(initial.items) = 1
    /\ Len(written) = 2 /\ Len(store.rows) = 4

HasLineBreak(message) == "\n" \in Range(message)

\* C16: FileHandler.write(entry) appends exactly one line, of the form
\* "[<ISO-8601 timestamp>] <LEVEL>: <message>" (the text of str(entry)), to the end
\* of the file and leaves the lines already in the file as they were, for every
\* valid entry.
C16_AppendsOneLine ==
    [][(backend = "file" /\ rcall'.op = "write" /\ result'.exc = "") =>
          readlines(store'.text)
              = readlines(store.text) \o <<str(rcall'.entry) \o <<"\n">>>>]_vars

\* the part of C16 the code keeps: the text of str(entry) and a line break are added
\* at the end of the file, which is one line unless the message has a line break
C16_AppendsStr ==
    [][(backend = "file" /\ rcall'.op = "write" /\ result'.exc = "") =>
          /\ store'.text = store.text \o str(rcall'.entry) \o <<"\n">>
          /\ ~HasLineBreak(rcall'.entry.message) =>
                 readlines(store'.text)
                     = readlines(store.text) \o <<str(rcall'.entry) \o <<"\n">>>>]_vars

\* a line without its line break
Body(line) ==
    IF line # <<>> /\ line[Len(line)] = "\n" THEN SubSeq(line, 1, Len(line) - 1) ELSE line

\* the level a line names after its bracketed timestamp (at most one)
LevelsNamed(body) ==
    {l \in FiveLevels : /\ Len(body) >= 7 + Len(l)
                        /\ SubSeq(body, 6, 7 + Len(l)) = l \o <<":", " ">>}

\* the line is "[<timestamp>] <LEVEL>: <message>" with a timestamp in ISO format
WellFormed(line) ==
    LET body == Body(line)
    IN  /\ Len(body) >= 5
        /\ body[1] = "[" /\ body[4] = "]" /\ body[5] = " "
        /\ body[2] \in Range(Digits) /\ body[3] \in Range(Digits)
        /\ LevelsNamed(body) # {}

\* the entry a well-formed line stands for
EntryOfLine(line) ==
    LET body == Body(line)
        l == CHOOSE x \in LevelsNamed(body) : TRUE
    IN  [type |-> "LogEntry", date |-> DigitVal(body[2]) * 10 + DigitVal(body[3]),
         level |-> l, message |-> SubSeq(body, 8 + Len(l), Len(body))]

WellFormedLines(text) == SelectSeq(readlines(text), WellFormed)
EntriesOfLines(text) ==
    [i \in DOMAIN WellFormedLines(text) |-> EntryOfLine(WellFormedLines(text)[i])]
OneMalformedLine(text) == Len(WellFormedLines(text)) = Len(readlines(text)) - 1

\* C17: when the text file holds well-formed lines and one malformed line (a line
\* without the bracket and colon structure, or a line whose bracketed timestamp is
\* no ISO-8601 text), a Reader bound to the FileHandler skips the malformed line
\* alone and returns every well-formed line as an entry, in file order.
C17_MalformedSkipped ==
    (backend = "file" /\ IsQuery /\ OneMalformedLine(store.text)) =>
        observed = EntriesOfLines(store.text)

\* the line has no two space characters to split on
Unstructured(line) == Len(split(strip(line), " ", 2)) < 3
Reversible(line) ==
    WellFormed(line) /\ EntryOfLine(line).message # <<>>
    /\ strip(EntryOfLine(line).message) = EntryOfLine(line).message

\* the part of C17 the code keeps: a malformed line that does not split into three
\* parts is skipped alone
C17_UnstructuredSkipped ==
    (/\ backend = "file" /\ IsQuery /\ OneMalformedLine(store.text)
     /\ \A i \in DOMAIN readlines(store.text) :
            \/ ~WellFormed(readlines(store.text)[i]) /\ Unstructured(readlines(store.text)[i])
            \/ Reversible(readlines(store.text)[i])) =>
        observed = EntriesOfLines(store.text)

\* the elements of logs at the indices idx, in the order of logs
Kept(logs, idx) ==
    [k \in 1..Cardinality(idx) |->
        logs[CHOOSE i \in idx : Cardinality({j \in idx : j <= i}) = k]]

\* every retrieved object is a LogEntry
EntriesRetrieved == \A i \in DOMAIN observed : observed[i].type = "LogEntry"

\* text is a substring of message
Occurs(text, message) ==
    \E a \in 0..Len(message) : \E b \in a..Len(message) : SubSeq(message, a + 1, b) = text

\* C18: find_by_text(text, case_sensitive) returns exactly the retrieved entries
\* whose message contains text (both lower-cased when case_sensitive is false, the
\* exact characters when it is true), in the order the handler returned them, none
\* twice and none added.
C18_FindByText ==
    (rcall.op = "find_by_text" /\ EntriesRetrieved) =>
        /\ result.exc = ""
        /\ result.value =
               Kept(observed,
                    {i \in DOMAIN observed :
                        IF rcall.flag THEN Occurs(rcall.text, observed[i].message)
                        ELSE Occurs(lower(rcall.text), lower(observed[i].message))})

C18_Witness ==
    /\ rcall.op = "find_by_text" /\ rcall.text = <<"A">> /\ ~rcall.flag
    /\ Len(observed) = 3 /\ observed[1].message = <<"b">>
    /\ result.value = <<observed[2], observed[3]>> /\ observed[2] # observed[3]

\* C19: find_by_level(level) returns exactly the retrieved entries whose level is
\* level, letter case ignored, in handler order; for a name that is none of the five
\* level names it returns an empty list and does not raise.
C19_FindByLevel ==
    rcall.op = "find_by_level" =>
        IF \E l \in FiveLevels : lower(l) = lower(rcall.text)
        THEN EntriesRetrieved =>
                 /\ result.exc = ""
                 /\ result.value =
                        Kept(observed, {i \in DOMAIN observed :
                                           lower(observed[i].level) = lower(rcall.text)})
        ELSE result.exc = "" /\ result.value = <<>>

C19_Witness ==
    /\ rcall.op = "find_by_level" /\ rcall.text = <<"i", "n", "f", "o">>
    /\ Len(observed) = 3 /\ observed[2].level = INFO /\ observed[3].level # INFO
    /\ result.value = <<observed[2]>>

\* C20: find_by_date_range(start, end) returns exactly the retrieved entries with
\* start <= timestamp <= end, an entry at start or at end included, in handler
\* order; when start > end the result is empty.
C20_FindByDateRange ==
    (rcall.op = "find_by_date_range" /\ EntriesRetrieved) =>
        /\ result.exc = ""
        /\ result.value =
               Kept(observed, {i \in DOMAIN observed :
                                  /\ rcall.start_date <= observed[i].date
                                  /\ observed[i].date <= rcall.end_date})
        /\ rcall.start_date > rcall.end_date => result.value = <<>>

C20_Witness ==
    /\ rcall.op = "find_by_date_range" /\ rcall.start_date = 1 /\ rcall.end_date = 2
    /\ Len(observed) = 3
    /\ observed[1].date = 1 /\ observed[2].date = 10 /\ observed[3].date = 2
    /\ result.value = <<observed[1], observed[3]>>

\* the groups have exactly the five level names as keys, hold every retrieved entry
\* in the group of its level, in handler order, and their sizes sum to the number
\* of retrieved entries
FiveGroups(groups) ==
    /\ DOMAIN groups = FiveLevels
    /\ \A l \in FiveLevels :
           groups[l] = Kept(observed, {i \in DOMAIN observed : observed[i].level = l})
    /\ Len(groups[DEBUG]) + Len(groups[INFO]) + Len(groups[WARNING]) + Len(groups[ERROR])
           + Len(groups[CRITICAL]) = Len(observed)

\* C21: groupby_level() always returns a mapping with exactly the five keys DEBUG,
\* INFO, WARNING, ERROR, CRITICAL (an empty list for a level without entries, also
\* when nothing is retrieved), every entry in the group of its own level in handler
\* order, the group sizes summing to the number of retrieved entries.
C21_GroupByLevel ==
    rcall.op = "groupby_level" => (result.exc = "" /\ FiveGroups(result.value))

\* the part of C21 the code keeps: the five groups, whenever every retrieved object
\* is a LogEntry
C21_GroupsEntries ==
    (rcall.op = "groupby_level" /\ EntriesRetrieved) =>
        (result.exc = "" /\ FiveGroups(result.value))

\* C22: sort_by_date(ascending) returns a permutation of the retrieved entries in
\* the order of their timestamps (non-decreasing when ascending, non-increasing when
\* not), and entries of one timestamp keep the relative order the handler gave them,
\* in both directions.
C22_SortByDate ==
    (rcall.op = "sort_by_date" /\ EntriesRetrieved) =>
        /\ result.exc = ""
        /\ Len(result.value) = Len(observed)
        /\ \E p \in Permutations(DOMAIN observed) :
               /\ \A k \in DOMAIN observed : result.value[k] = observed[p[k]]
               /\ \A j, k \in DOMAIN observed :
                      j < k =>
                          /\ rcall.flag => observed[p[j]].date <= observed[p[k]].date
                          /\ ~rcall.flag => observed[p[j]].date >= observed[p[k]].date
                          /\ observed[p[j]].date = observed[p[k]].date => p[j] < p[k]

C22_Witness ==
    /\ rcall.op = "sort_by_date" /\ ~rcall.flag /\ Len(observed) = 3
    /\ observed[1].date = observed[2].date /\ observed[1] # observed[2]
    /\ observed[3].date > observed[1].date
    /\ result.value = <<observed[3], observed[1], observed[2]>>

\* C23: the Reader queries are read-only: over any sequence of find_by_text,
\* find_by_level, find_by_date_range, groupby_level and sort_by_date calls the
\* handler the Reader is bound to and the records it has persisted (content and
\* order) stay as they are, so what is retrieved before and after a query is the same.
C23_QueriesReadOnly ==
    [][rcall'.op \in QueryOps =>
          /\ backend' = backend
          /\ store' = store
          /\ retrieve_method("", backend', store') = retrieve_method("", backend, store)]_vars

C23_Witness ==
    /\ rcall.op = "sort_by_date" /\ backend = "sql" /\ Len(written) = 2
    /\ result.exc = "" /\ result.value # observed
    /\ Len(Retrieved.items) = 3 /\ Retrieved.items[3] = to_dict(written[1])

\* C26: JsonHandler.write(entry) on a file that is missing, zero-length or no JSON
\* does not fail: it takes the content for an empty array and leaves a JSON array of
\* exactly one record, that of the entry; on a file with an array of k records it
\* leaves an array of k+1 records, the first k as they were.
C26_JsonWriteRecovers ==
    [][(backend = "json" /\ rcall'.op = "write") =>
          /\ store.kind \in {"missing", "empty", "malformed"} =>
                 /\ result'.exc = ""
                 /\ store' = [kind |-> "json", top |-> "list",
                              items |-> <<to_dict(rcall'.entry)>>]
          /\ (store.kind = "json" /\ store.top = "list") =>
                 /\ result'.exc = ""
                 /\ store'.kind = "json" /\ store'.top = "list"
                 /\ Len(store'.items) = Len(store.items) + 1
                 /\ SubSeq(store'.items, 1, Len(store.items)) = store.items
                 /\ store'.items[Len(store'.items)] = to_dict(rcall'.entry)]_vars

C26_Witness ==
    /\ backend = "json" /\ rcall.op = "write" /\ result.exc = "" /\ ~initial.own
    /\ written = <<rcall.entry>>
    /\ store = [kind |-> "json", top |-> "list", items |-> <<to_dict(rcall.entry)>>]

\* the positions of the space characters of a line, surrounding whitespace stripped
SpacesOf(line) == {i \in DOMAIN strip(line) : strip(line)[i] = " "}
FirstSpace(line) == CHOOSE i \in SpacesOf(line) : \A j \in SpacesOf(line) : i <= j
SecondSpace(line) ==
    CHOOSE i \in SpacesOf(line) \ {FirstSpace(line)} :
        \A j \in SpacesOf(line) \ {FirstSpace(line)} : i <= j

\* the line has the two spaces that split it into three parts
ThreeParts(line) == Cardinality(SpacesOf(line)) >= 2

\* the first part is in brackets and the second ends with a colon
Decorated(line) ==
    /\ FirstSpace(line) >= 3 /\ SecondSpace(line) >= FirstSpace(line) + 2
    /\ strip(line)[1] = "[" /\ strip(line)[FirstSpace(line) - 1] = "]"
    /\ strip(line)[SecondSpace(line) - 1] = ":"

\* the record of such a line: the text between the brackets, the text before the
\* colon, the rest
RecordOfLine(line) ==
    [type |-> "dict", keys |-> {K_date, K_level, K_message},
     date |-> SubSeq(strip(line), 2, FirstSpace(line) - 2),
     level |-> SubSeq(strip(line), FirstSpace(line) + 1, SecondSpace(line) - 2),
     message |-> SubSeq(strip(line), SecondSpace(line) + 1, Len(strip(line)))]

SplitLines(text) == SelectSeq(readlines(text), ThreeParts)

\* C27: retrieve_all_logs_file skips every line that, surrounding whitespace
\* stripped, does not split on its first two spaces into exactly 3 parts, and
\* returns one record per remaining line, the brackets of the timestamp and the
\* colon of the level removed, in file order.
C27_LinesParsed ==
    (backend = "file" /\ store.kind = "file") =>
        /\ Retrieved.exc = "" /\ Retrieved.top = "list"
        /\ Len(Retrieved.items) = Len(SplitLines(store.text))
        /\ \A k \in DOMAIN SplitLines(store.text) :
               Decorated(SplitLines(store.text)[k]) =>
                   Retrieved.items[k] = RecordOfLine(SplitLines(store.text)[k])

C27_Witness ==
    /\ backend = "file" /\ ~initial.own
    /\ Len(readlines(store.text)) = 5 /\ Len(Retrieved.items) = 3
    /\ Retrieved.items[3].message = <<"a", " ", "b">>
    /\ Retrieved.items[3].date = isoformat(1) /\ Retrieved.items[3].level = ERROR

\* what an operation did to the database, the directory left aside
OnDatabase(events) == SelectSeq(events, LAMBDA e : e # "makedirs")

\* the operation opened one connection, before anything else, and closed it last
OwnConnection(events) ==
    /\ Len(events) >= 2
    /\ events[1] = "connect" /\ events[Len(events)] = "close"
    /\ Count(events, "connect") = 1 /\ Count(events, "close") = 1

\* C29: every SQLLiteHandler operation (table creation, write,
\* retrieve_all_logs_sql) opens its own connection and closes it on every exit
\* path, whether it returns or raises: after any sequence of successful and failing
\* operations no connection is open between operations. An operation that did
\* nothing to the database is one that raised before connecting.
C29_ConnectionsClosed ==
    /\ connections = 0
    /\ (backend = "sql" /\ rcall.op \in {"init", "construct", "write"} \cup QueryOps) =>
           \/ OwnConnection(OnDatabase(io))
           \/ /\ OnDatabase(io) = <<>>
              /\ \/ result.exc \in {"ValueError", "OperationalError"}
                 \/ rcall.op \in QueryOps /\ observed = <<>>

C29_Witness ==
    /\ backend = "sql" /\ rcall.op = "write" /\ result.exc = "OperationalError"
    /\ store.kind = "notable"
    /\ io = <<"connect", "execute", "close">>
    /\ connections = 0

----------------------------------------------------------------------------
(* The LogEntry claims, checked under SpecEntry *)

\* C11: for every valid (timestamp, level, message), from_dict(entry.to_dict())
\* succeeds and gives an entry with the same date, level and message; to_dict gives
\* exactly the keys date, level, message, the date as its ISO-8601 text.
C11_RoundTrip ==
    /\ made.ok /\ data # NoDict =>
           /\ data.type = "dict"
           /\ data.keys = {K_date, K_level, K_message}
           /\ data.level = made.entry.level /\ data.message = made.entry.message
           /\ Len(data.date) = 2
           /\ \A i \in 1..2 : data.date[i] \in Range(Digits)
           /\ DigitVal(data.date[1]) * 10 + DigitVal(data.date[2]) = made.entry.date
    /\ made.ok /\ restored # NotMade =>
           /\ restored.ok
           /\ restored.entry.type = "LogEntry"
           /\ restored.entry.date = args.date.val
           /\ restored.entry.level = args.level.val
           /\ restored.entry.message = args.message.val

C11_Witness ==
    /\ args = [date |-> PyDatetime(10), level |-> PyStr(WARNING),
               message |-> PyStr(<<"a", "\n", " ", "B">>)]
    /\ restored.ok /\ restored.entry = made.entry

\* the arguments are a datetime, one of the five level names and a text
ValidArgs ==
    /\ args.date.type = "datetime"
    /\ args.level.type = "str" /\ args.level.val \in FiveLevels
    /\ args.message.type = "str"

\* C24: constructing a LogEntry raises a validation error to the caller, and no
\* entry comes into being, if the timestamp is no datetime, if the level is not
\* exactly one of DEBUG, INFO, WARNING, ERROR, CRITICAL, or if the message is no
\* text; otherwise it succeeds and date, level and message are the arguments.
C24_EntryValidated ==
    (args # NoArgs /\ made # NotMade) =>
        IF ValidArgs
        THEN /\ made.ok /\ made.exc = ""
             /\ made.entry = [type |-> "LogEntry", date |-> args.date.val,
                              level |-> args.level.val, message |-> args.message.val]
        ELSE /\ ~made.ok /\ made.exc \in {"TypeError", "ValueError"}
             /\ made.entry.type # "LogEntry"
             /\ data = NoDict /\ restored = NotMade

C24_Witness ==
    /\ args = [date |-> PyDatetime(1), level |-> PyStr(lower(INFO)), message |-> PyStr(<<"a">>)]
    /\ made.exc = "ValueError" /\ ~made.ok

\* a field is absent from the record, or its date is no ISO-8601 text
Unbuildable(d) ==
    \/ ~({K_date, K_level, K_message} \subseteq d.keys)
    \/ ~(Len(d.date) = 2 /\ \A i \in DOMAIN d.date : d.date[i] \in Range(Digits))

\* C25: LogEntry.from_dict(record) raises ValueError whenever one of the fields date,
\* level, message is absent from the record or the date is no ISO-8601 text, and
\* returns no partially built entry then.
C25_FromDictValidated ==
    (data.type = "dict" /\ restored # NotMade /\ Unbuildable(data)) =>
        /\ ~restored.ok /\ restored.exc = "ValueError"
        /\ restored.entry.type # "LogEntry"

C25_Witness ==
    /\ data = Dict({K_date, K_level, K_message}, <<"x">>, INFO, <<"a">>)
    /\ restored.exc = "ValueError" /\ ~restored.ok

----------------------------------------------------------------------------
(* The claim on two writers, checked under SpecRace *)

BothReturned == \A w \in Writers : pc[w] = "returned"

\* the writers whose record the file holds
Present ==
    {w \in Writers : shared.kind = "json" /\ shared.top = "list"
                      /\ \E i \in DOMAIN shared.items : shared.items[i] = to_dict(writing[w])}

\* C28: the write of the JSON backend is a read-modify-write in steps: when the
\* write calls of two writers on one file overlap (one reads the array while the
\* other is between its read and the end of its rewrite) and both have returned,
\* the file holds the record of only one of the two entries, that of the writer
\* that rewrote last; when one call ends ahead of the start of the other, the file is what
\* the two writes leave one after the other, with both records.
C28_LostUpdate ==
    BothReturned =>
        IF overlapped
        THEN Present = {finished[2]}
        ELSE /\ Present = Writers
             /\ shared = JsonHandler_write(
                           JsonHandler_write(at_start, writing[finished[1]]).store,
                           writing[finished[2]]).store

\* both writers read the array, then both rewrote the file
C28_Witness ==
    /\ BothReturned /\ overlapped
    /\ at_start = JsonList(<<to_dict(Seed)>>)
    /\ \A w \in Writers : local[w] = <<to_dict(Seed), to_dict(writing[w])>>
    /\ finished = <<1, 2>>
    /\ shared = JsonList(<<to_dict(Seed), to_dict(writing[2])>>)

====
